---------------------------- MODULE Spec2Model ----------------------------
(***************************************************************************)
(* QRCoder (Fusion 360 add-in), commands/QRCodeMaker.py.                   *)
(*                                                                         *)
(* The geometry layout (get_qr_temp_geometry) and the command that commits *)
(* it to the host document (make_real_geometry, QRCodeMaker.on_execute).   *)
(*                                                                         *)
(* Lengths are Python floats in the source.  Here they are exact rationals *)
(* <<numerator, denominator>>, so every formula the code evaluates is      *)
(* evaluated as written but without rounding.  The host API (adsk) is not  *)
(* part of the repository: each host call whose result the code tests is   *)
(* given its outcome by an oracle chosen nondeterministically per call.    *)
(***************************************************************************)
EXTENDS Integers, Sequences, FiniteSets, TLC

\* ------------------------------------------------------------------------
\* Bounds of the model
\* ------------------------------------------------------------------------
\* largest matrix size N (matrices are N x N, N in 0..MaxN)
MaxN == 2
\* largest number of on cells of a matrix
MaxOn == 2
\* the most data rows a CSV file holds
MaxRows == 2

\* ------------------------------------------------------------------------
\* Exact rational arithmetic (the floats of the source, without rounding)
\* ------------------------------------------------------------------------
Abs(x) == IF x < 0 THEN -x ELSE x

RECURSIVE GCD(_, _)
GCD(a, b) == IF b = 0 THEN a ELSE GCD(b, a % b)

\* the rational n/d (d > 0) in lowest terms
Rat(n, d) == LET g == GCD(Abs(n), d) IN <<n \div g, d \div g>>

Zero == <<0, 1>>
One == <<1, 1>>
Two == <<2, 1>>

RInt(n) == <<n, 1>>
RNeg(p) == <<-p[1], p[2]>>
RAdd(p, q) ==
    LET g == GCD(p[2], q[2])
    IN  Rat(p[1] * (q[2] \div g) + q[1] * (p[2] \div g), (p[2] \div g) * q[2])
RSub(p, q) == RAdd(p, RNeg(q))
RMul(p, q) ==
    LET g1 == GCD(Abs(p[1]), q[2])
        g2 == GCD(Abs(q[1]), p[2])
    IN  Rat((p[1] \div g1) * (q[1] \div g2), (p[2] \div g2) * (q[2] \div g1))
\* p / q for q # 0
RDiv(p, q) ==
    IF q[1] > 0 THEN RMul(p, <<q[2], q[1]>>) ELSE RMul(p, <<-q[2], -q[1]>>)
RLess(p, q) ==
    LET g == GCD(p[2], q[2])
    IN  p[1] * (q[2] \div g) < q[1] * (p[2] \div g)
RLeq(p, q) == p = q \/ RLess(p, q)

\* exact square root of a rational that is a perfect square
ISqrt(n) == CHOOSE k \in 0..n : k * k = n
RSqrt(p) == <<ISqrt(p[1]), ISqrt(p[2])>>

\* ------------------------------------------------------------------------
\* adsk.core.Vector3D / Point3D: triples of rationals
\* ------------------------------------------------------------------------
Vec(x, y, z) == <<RInt(x), RInt(y), RInt(z)>>
ZeroVector == Vec(0, 0, 0)

\* Vector3D.scaleBy
scaleBy(v, s) == <<RMul(v[1], s), RMul(v[2], s), RMul(v[3], s)>>
\* Point3D.translateBy
translateBy(p, v) == <<RAdd(p[1], v[1]), RAdd(p[2], v[2]), RAdd(p[3], v[3])>>
\* Vector3D.dotProduct
dotProduct(u, v) ==
    RAdd(RMul(u[1], v[1]), RAdd(RMul(u[2], v[2]), RMul(u[3], v[3])))
\* Vector3D.crossProduct
crossProduct(u, v) ==
    << RSub(RMul(u[2], v[3]), RMul(u[3], v[2])),
       RSub(RMul(u[3], v[1]), RMul(u[1], v[3])),
       RSub(RMul(u[1], v[2]), RMul(u[2], v[1])) >>
\* Vector3D.length
length(v) == RSqrt(dotProduct(v, v))
\* Vector3D.normalize: makes the length one; a zero-length vector cannot be
\* normalized, the call returns false and the code ignores that result, so
\* the vector stays as it was.
normalize(v) == IF v = ZeroVector THEN v ELSE scaleBy(v, RDiv(One, length(v)))
\* the vector from point p to point q
vectorTo(p, q) == <<RSub(q[1], p[1]), RSub(q[2], p[2]), RSub(q[3], p[3])>>


\* ------------------------------------------------------------------------
\* Python values
\* ------------------------------------------------------------------------
\* None, for the values that are sequences here (lengths, points, bodies)
None == <<>>

\* A matrix cell is <<type, text>>: an int cell (build_qr_code, line 461) or
\* a str cell (csv.reader, line 418); text is what str() returns for it.
pystr(col_char) == col_char[2]
\* str.strip() on the texts a cell can hold
strip(text) ==
    CASE text = " 1" -> "1"
      [] text = "1 " -> "1"
      [] text = " 0" -> "0"
      [] text = "0 " -> "0"
      [] OTHER -> text

\* line 354: the cell is solid
IsOnIntOnly(col_char) == col_char[1] = "int" /\ pystr(col_char) = "1"
IsOn(col_char) == strip(pystr(col_char)) = "1"

\* for i, row in enumerate(qr_data): for j, col_char in enumerate(row):
\* the cells <<i, j, col_char>> in the order the two loops visit them
\* the columns in the outer loop
EnumerateColumnMajor(qr_data, i) ==
    LET n == Len(qr_data)
    IN  [k \in 1..(n * n) |->
            <<(k - 1) % n, (k - 1) \div n, qr_data[((k - 1) % n) + 1][((k - 1) \div n) + 1]>>]
RECURSIVE Enumerate(_, _)
Enumerate(qr_data, i) ==
    IF i > Len(qr_data) THEN <<>>
    ELSE [j \in 1..Len(qr_data[i]) |-> <<i - 1, j - 1, qr_data[i][j]>>]
         \o Enumerate(qr_data, i + 1)

\* the on cells of a matrix, in visiting order
OnCells(qr_data) == SelectSeq(Enumerate(qr_data, 1), LAMBDA c : IsOn(c[3]))

\* ------------------------------------------------------------------------
\* Host objects
\* ------------------------------------------------------------------------
\* adsk.core.OrientedBoundingBox3D.create(centerPoint, lengthDirection,
\* widthDirection, length, width, height); kind/row/col only label the box.
OrientedBoundingBox3D(kind, row, col, centerPoint, lengthDirection, widthDirection, len, width, height) ==
    [kind |-> kind, row |-> row, col |-> col, centerPoint |-> centerPoint,
     lengthDirection |-> lengthDirection, widthDirection |-> widthDirection,
     length |-> len, width |-> width, height |-> height]

\* ao.ui.messageBox(...): the message shown, with the cell it names
Msg(text, row, col) == [text |-> text, row |-> row, col |-> col]

\* ------------------------------------------------------------------------
\* get_qr_temp_geometry
\* ------------------------------------------------------------------------
\* line 335: base > 1e-6
Tolerance == <<1, 1000000>>
BaseNeededNoTolerance(base) == RLeq(Zero, base)
BaseNeeded(base) == RLess(Tolerance, base)

\* line 293
SideUnscaled(overall_size, qr_matrix_size) == overall_size
Side(overall_size, qr_matrix_size) == RDiv(overall_size, RInt(qr_matrix_size))

\* lines 314-329: the centre of the first (top-left) block
StartPointAtCorner(center_point_world, x_dir, y_dir, z_dir, side, n, base, height) ==
    LET half == RDiv(RInt(n), Two)
        p1 == translateBy(center_point_world,
                 scaleBy(x_dir, RMul(RNeg(side), half)))
        p2 == translateBy(p1, scaleBy(y_dir, RMul(side, half)))
    IN  translateBy(p2, scaleBy(z_dir, RAdd(base, RDiv(height, Two))))
StartPoint(center_point_world, x_dir, y_dir, z_dir, side, n, base, height) ==
    LET half == RDiv(RInt(n), Two)
        p1 == translateBy(center_point_world,
                 scaleBy(x_dir, RAdd(RMul(RNeg(side), half), RDiv(side, Two))))
        p2 == translateBy(p1,
                 scaleBy(y_dir, RSub(RMul(side, half), RDiv(side, Two))))
    IN  translateBy(p2, scaleBy(z_dir, RAdd(base, RDiv(height, Two))))

\* lines 336-339
BaseCenterPointFullOffset(center_point_world, z_dir, base) ==
    translateBy(center_point_world, scaleBy(z_dir, base))
BaseCenterPoint(center_point_world, z_dir, base) ==
    translateBy(center_point_world, scaleBy(z_dir, RDiv(base, Two)))

\* lines 356-364
BlockCenterPointTransposed(start_point, x_dir, y_dir, i, j, side) ==
    translateBy(translateBy(start_point, scaleBy(x_dir, RMul(RInt(i), side))),
                scaleBy(y_dir, RMul(RInt(-j), side)))
BlockCenterPointRowsUp(start_point, x_dir, y_dir, i, j, side) ==
    translateBy(translateBy(start_point, scaleBy(x_dir, RMul(RInt(j), side))),
                scaleBy(y_dir, RMul(RInt(i), side)))
BlockCenterPoint(start_point, x_dir, y_dir, i, j, side) ==
    translateBy(translateBy(start_point, scaleBy(x_dir, RMul(RInt(j), side))),
                scaleBy(y_dir, RMul(RInt(-i), side)))

\* line 333: final_qr_body = None; the argument is whatever an earlier call
\* left behind, which the assignment discards
ResetBodyKeepsStale(stale) == stale
ResetBody(stale) == None

\* the target is lost when the union fails
booleanOperationDropsTarget(targetBody, toolBody, out) ==
    IF out = "false" THEN None ELSE Append(targetBody, toolBody)
\* line 382: b_mgr.booleanOperation(final_qr_body, block_body, Union): the
\* target body afterwards; it is as it was when the operation returns false
booleanOperation(targetBody, toolBody, out) ==
    IF out = "false" THEN targetBody ELSE Append(targetBody, toolBody)

\* lines 356-387: the body of the loops for one on cell c = <<i, j, col_char>>;
\* out is what the host does with this cell's box: "ok", "none" (createBox
\* returns None) or "false" (booleanOperation returns false)
BlockStep(st, c, out, env) ==
    LET i == c[1]
        j == c[2]
        block_center_point ==
            BlockCenterPoint(env.start_point, env.x_dir, env.y_dir, i, j, env.side)
        block_obb ==
            OrientedBoundingBox3D("cell", i, j, block_center_point, env.x_dir,
                                  env.y_dir, env.side, env.side, env.height)
    IN  CASE out = "none" ->
               [st EXCEPT !.messages = Append(@, Msg("block_failed", i, j))]
          [] OTHER ->
               IF st.final_qr_body = None
               THEN [st EXCEPT !.final_qr_body = <<block_obb>>,
                               !.boxes = Append(@, block_obb)]
               ELSE IF out = "false"
               THEN [st EXCEPT !.final_qr_body = booleanOperation(@, block_obb, out),
                               !.boxes = Append(@, block_obb),
                               !.messages = Append(@, Msg("union_failed", i, j))]
               ELSE [st EXCEPT !.final_qr_body = booleanOperation(@, block_obb, out),
                               !.boxes = Append(@, block_obb)]

\* lines 351-387: the two loops, over the on cells in visiting order
RECURSIVE BlockLoop(_, _, _, _, _)
BlockLoop(cells, k, st, outs, env) ==
    IF k > Len(cells) THEN st
    ELSE BlockLoop(cells, k + 1, BlockStep(st, cells[k], outs[k], env), outs, env)

\* lines 335-347: the base plate; out is "ok" or "none"
BaseStep(st, out, env) ==
    IF ~BaseNeeded(env.base) THEN st
    ELSE LET base_center_point ==
                 BaseCenterPoint(env.center_point_world, env.z_dir, env.base)
             base_obb ==
                 OrientedBoundingBox3D("base", -1, -1, base_center_point,
                                       env.x_dir, env.y_dir, env.overall_size,
                                       env.overall_size, env.base)
         IN  CASE out = "none" ->
                    [st EXCEPT !.messages = Append(@, Msg("base_failed", -1, -1))]
               [] OTHER -> [st EXCEPT !.final_qr_body = <<base_obb>>,
                                      !.boxes = Append(@, base_obb)]

\* lines 389-394: the value returned
Finish(st2) ==
    IF st2.final_qr_body = None
    THEN [ret |-> None, boxes |-> st2.boxes,
          messages |-> Append(st2.messages, Msg("no_geometry", -1, -1)),
          final_qr_body |-> None]
    ELSE [ret |-> st2.final_qr_body, boxes |-> st2.boxes,
          messages |-> st2.messages,
          final_qr_body |-> st2.final_qr_body]

\* lines 251-398.  stale is the accumulator an earlier call left; h is the
\* host's outcome for the base box (h.base) and for the box of the k-th on
\* cell (h.cells[k]); with h.raise a host call raises once the inputs are
\* read (TemporaryBRepManager.get(), line 332) and the handler of lines
\* 396-398 shows the error and returns None.  The result is the returned body (None on failure), the
\* boxes the host created, the messages shown and the accumulator at exit.
get_qr_temp_geometry(stale, qr_data, input_values, h) ==
    LET height == input_values.block_height
        base == input_values.base_height
        overall_size == input_values.qr_size
        sketch_point_list == input_values.sketch_point
        Fail(text) == [ret |-> None, boxes |-> <<>>,
                       messages |-> <<Msg(text, -1, -1)>>,
                       final_qr_body |-> stale]
    IN  IF height = None \/ base = None \/ overall_size = None
        THEN Fail("missing_values")
        ELSE IF sketch_point_list = <<>> THEN Fail("missing_sketch_point")
        ELSE IF Len(qr_data) = 0 THEN Fail("empty_data")
        ELSE IF sketch_point_list[1].parentSketch = <<>> THEN Fail("no_sketch")
        ELSE
        LET sketch_point == sketch_point_list[1]
            qr_matrix_size == Len(qr_data)
            side == Side(overall_size, qr_matrix_size)
            sketch == sketch_point.parentSketch[1]
            x_dir == normalize(sketch.xDirection)
            y_dir == normalize(sketch.yDirection)
            z_dir == normalize(crossProduct(x_dir, y_dir))
            center_point_world == sketch_point.worldGeometry
            env == [x_dir |-> x_dir, y_dir |-> y_dir, z_dir |-> z_dir,
                    center_point_world |-> center_point_world,
                    start_point |-> StartPoint(center_point_world, x_dir, y_dir,
                                               z_dir, side, qr_matrix_size,
                                               base, height),
                    side |-> side, height |-> height, base |-> base,
                    overall_size |-> overall_size]
            st0 == [final_qr_body |-> ResetBody(stale), boxes |-> <<>>,
                    messages |-> <<>>]
            st1 == BaseStep(st0, h.base, env)
            st2 == BlockLoop(OnCells(qr_data), 1, st1, h.cells, env)
        IN  IF h.raise THEN Fail("error") ELSE Finish(st2)

\* ------------------------------------------------------------------------
\* Inputs
\* ------------------------------------------------------------------------
\* block_height, base_height and qr_size as the dialog delivers them (cm):
\* 0.4 mm; no base, a base of exactly the tolerance, a base of 5 mm;
\* 24 mm and 30 mm
DefaultHeight == <<1, 25>>
HalfCm == <<1, 2>>
Bases == {Zero, Tolerance, HalfCm}
Size24 == <<12, 5>>
Size30 == <<3, 1>>

\* sketch.xDirection / sketch.yDirection: unit axes, axes that are not of
\* unit length, and an axis of zero magnitude
UnitSketch == [xDirection |-> Vec(1, 0, 0), yDirection |-> Vec(0, 1, 0)]
LongSketch == [xDirection |-> Vec(3, 4, 0), yDirection |-> Vec(-4, 3, 0)]
ZeroXSketch == [xDirection |-> Vec(0, 0, 0), yDirection |-> Vec(0, 1, 0)]
ZeroYSketch == [xDirection |-> Vec(1, 0, 0), yDirection |-> Vec(0, 0, 0)]

\* sketch_point.worldGeometry
Anchor == Vec(3, -2, 5)

\* input_values['sketch_point']: a point of a sketch, a point without a
\* parent sketch, nothing selected
PointOf(sk) == <<[worldGeometry |-> Anchor, parentSketch |-> <<sk>>]>>
OrphanPoint == <<[worldGeometry |-> Anchor, parentSketch |-> <<>>]>>

Types == {"int", "str"}
Positions(n) == (1..n) \X (1..n)
\* the n x n matrix of cells of one type whose on cells are the set on
Matrix(n, type, on) ==
    [i \in 1..n |-> [j \in 1..n |->
        IF <<i, j>> \in on THEN <<type, "1">> ELSE <<type, "0">>]]
Matrices ==
    UNION { { Matrix(n, type, on) :
                on \in {s \in SUBSET Positions(n) : Cardinality(s) <= MaxOn},
                type \in Types } : n \in 0..MaxN }

\* input_values; message and file_name matter to on_execute only and are the
\* dialog's defaults (lines 61, 63) unless said otherwise
Inputs(block_height, base_height, qr_size, sketch_point, message, file_name) ==
    [block_height |-> block_height, base_height |-> base_height,
     qr_size |-> qr_size, sketch_point |-> sketch_point,
     message |-> message, file_name |-> file_name]
Values(block_height, base_height, qr_size, sketch_point) ==
    Inputs(block_height, base_height, qr_size, sketch_point,
           "input here", "QR-17x.csv")
InputValues ==
    { Values(DefaultHeight, b, Size24, PointOf(UnitSketch)) : b \in Bases }
    \cup { Values(DefaultHeight, b, Size30, PointOf(LongSketch)) : b \in Bases }
    \cup { Values(DefaultHeight, Zero, Size24, PointOf(ZeroXSketch)),
           Values(DefaultHeight, HalfCm, Size30, PointOf(ZeroYSketch)),
           Values(DefaultHeight, HalfCm, Size30, OrphanPoint),
           Values(DefaultHeight, Zero, Size24, <<>>) }

\* the function reaches its host calls (no early return at lines 273-301)
ReachesHost(qr_data, input_values) ==
    /\ input_values.sketch_point # <<>>
    /\ Len(qr_data) # 0
    /\ input_values.sketch_point[1].parentSketch # <<>>

\* the host's outcomes for one call: whether a host call raises, else what
\* createBox returns for the base box and what createBox and
\* booleanOperation return for the box of each on cell
NoFault(k) == [raise |-> FALSE, base |-> "ok", cells |-> [a \in 1..k |-> "ok"]]
HostOutcomes(qr_data, input_values) ==
    LET k == Len(OnCells(qr_data))
    IN  IF ~ReachesHost(qr_data, input_values) THEN {NoFault(k)}
        ELSE [raise : {FALSE},
              base : IF BaseNeeded(input_values.base_height)
                     THEN {"ok", "none"} ELSE {"ok"},
              cells : [1..k -> {"ok", "none", "false"}]]
             \cup {[NoFault(k) EXCEPT !.raise = TRUE]}

\* ------------------------------------------------------------------------
\* State
\* ------------------------------------------------------------------------
VARIABLES
    qr_data,        \* the matrix handed to get_qr_temp_geometry
    input_values,   \* the dialog's values
    host,           \* the host's outcomes during the call
    pc,             \* "ready", "built" (one call made), "rebuilt" (two)
    ret,            \* what the last call returned
    boxes,          \* the boxes the host created during the last call
    messages,       \* the messages the last call showed
    final_qr_body,  \* the accumulator as the last call left it
    earlier,        \* ret, boxes and messages of the call before the last
    is_make_qr,     \* QRCodeMaker.is_make_qr: single QR (TRUE) or CSV batch
    scene,          \* the host document: what the command has added to it
    ops,            \* the host calls on_execute made, in order
    shown,          \* the messages on_execute showed, in order
    ok_enabled,     \* okButton.isEnabled
    outcome,        \* "none", "returned", or "raised" (an exception left
                    \* on_execute)
    dialog,         \* the command inputs of the dialog and their values
    make_preview,   \* QRCodeMaker.make_preview
    isValidResult,  \* args.isValidResult as the last on_preview left it
    csv_preview,    \* the text of the csv_preview box
    csv_file,       \* the name of the file import_qr_from_file is given
    qr_text,        \* what qr.text(quiet_zone=0) returns, as lines
    answer          \* what the last call of a reading function returned

buildVars == <<host, ret, boxes, messages, final_qr_body, earlier>>
execVars == <<is_make_qr, scene, ops, shown, ok_enabled, outcome>>
panelVars == <<dialog, make_preview, isValidResult, csv_preview>>
fileVars == <<csv_file, qr_text, answer>>
vars == <<qr_data, input_values, pc, buildVars, execVars, panelVars, fileVars>>

\* the document before the command runs: no component, body or feature of
\* the command's making
InitialScene ==
    [components |-> 0, component_name |-> "", copied_bodies |-> 0,
     base_features |-> 0, editing |-> FALSE, qr_bodies |-> 0,
     qr_body_name |-> ""]

NoCall == [ret |-> None, boxes |-> <<>>, messages |-> <<>>]

\* lines 59-63 and 857-868: the dialog as on_create builds it, nothing
\* selected; a value input is <<isValid, value>>
DefaultDialog ==
    [sketch_point |-> 0, qr_size |-> <<TRUE, Size24>>,
     block_height |-> <<TRUE, DefaultHeight>>, base_height |-> <<TRUE, Zero>>,
     message |-> "input here", file_name |-> "QR-17x.csv"]
\* line 617, and the csv_preview box before a file is browsed for (line 531)
PanelIdle ==
    /\ dialog = DefaultDialog
    /\ make_preview = TRUE
    /\ isValidResult = FALSE
    /\ csv_preview = <<"Click Browse... to load file.">>
\* no reading function has been called
NoAnswer == [ret |-> <<>>, messages |-> <<>>]
FilesIdle ==
    /\ csv_file = ""
    /\ qr_text = <<>>
    /\ answer = NoAnswer

Init ==
    /\ qr_data \in Matrices
    /\ input_values \in InputValues
    /\ host = NoFault(0)
    /\ pc = "ready"
    /\ ret = None
    /\ boxes = <<>>
    /\ messages = <<>>
    /\ final_qr_body = None
    /\ earlier = NoCall
    /\ is_make_qr = TRUE
    /\ scene = InitialScene
    /\ ops = <<>>
    /\ shown = <<>>
    /\ ok_enabled = TRUE
    /\ outcome = "none"
    /\ PanelIdle
    /\ FilesIdle

\* get_qr_temp_geometry(qr_data, input_values), the host answering h
Invoke(h) ==
    \E r \in {get_qr_temp_geometry(final_qr_body, qr_data, input_values, h)} :
        /\ host' = h
        /\ earlier' = [ret |-> ret, boxes |-> boxes, messages |-> messages]
        /\ ret' = r.ret
        /\ boxes' = r.boxes
        /\ messages' = r.messages
        /\ final_qr_body' = r.final_qr_body
        /\ UNCHANGED <<qr_data, input_values, execVars, panelVars, fileVars>>

\* a first call
Build ==
    /\ pc = "ready"
    /\ \E h \in HostOutcomes(qr_data, input_values) : Invoke(h)
    /\ pc' = "built"

\* a second call with the same matrix, frame and parameters, the host
\* answering as it did the first time
BuildAgain ==
    /\ pc = "built"
    /\ Invoke(host)
    /\ pc' = "rebuilt"

Next == Build \/ BuildAgain

Spec == Init /\ [][Next]_vars

\* ------------------------------------------------------------------------
\* make_real_geometry and QRCodeMaker.on_execute
\* ------------------------------------------------------------------------
\* get_qr_temp_geometry was not called
NoBuild == [ret |-> None, boxes |-> <<>>, messages |-> <<>>,
            final_qr_body |-> None]

\* What a run of the command does is a sequence of steps, in order: the calls
\* it makes (with the argument and the answer that matter) and the messages
\* it shows; the last step says how the function ended.
CallStep(name, arg, result) ==
    [kind |-> "call", name |-> name, arg |-> arg, result |-> result]
Message(text) == [kind |-> "say", name |-> text, arg |-> "", result |-> ""]
Return(value) == [kind |-> "return", name |-> value, arg |-> "", result |-> ""]
Messages(msgs) == [k \in 1..Len(msgs) |-> Message(msgs[k].text)]

\* lines 191-221: name the body that was added; e.body_rename is "ok",
\* "raise" (the assignment raises) or "not_found" (no body of the feature)
RenameBody(e) ==
    CASE e.body_rename = "raise" ->
           << CallStep("rename_body", "QR_Code_Geometry", "raise"),
              Message("rename_body_failed"), Return("component") >>
      [] e.body_rename = "not_found" ->
           << Message("body_not_identified"), Return("component") >>
      [] OTHER ->
           << CallStep("rename_body", "QR_Code_Geometry", "ok"),
              Return("component") >>

\* lines 167-189 and 223-227: commit the temporary body as a base feature
CommitBaseFeature(e) ==
    CASE e.base_feature = "none" ->
           << CallStep("baseFeatures.add", "", "none"),
              Message("base_feature_failed"), Return("None") >>
      [] e.base_feature = "raise" ->
           << CallStep("baseFeatures.add", "", "raise"),
              Message("geometry_error"), Return("None") >>
      [] ~e.temp_valid ->
           << CallStep("baseFeatures.add", "", "ok"),
              CallStep("startEdit", "", "ok"),
              Message("temp_invalid"),
              CallStep("cancelEdit", "", "ok"), Return("None") >>
      [] e.add = "none" ->
           << CallStep("baseFeatures.add", "", "ok"),
              CallStep("startEdit", "", "ok"),
              CallStep("bRepBodies.add", "", "none"),
              Message("add_failed"),
              CallStep("cancelEdit", "", "ok"), Return("None") >>
      [] e.add = "raise" ->
           << CallStep("baseFeatures.add", "", "ok"),
              CallStep("startEdit", "", "ok"),
              CallStep("bRepBodies.add", "", "raise"),
              Message("geometry_error"), Return("None") >>
      [] OTHER ->
           << CallStep("baseFeatures.add", "", "ok"),
              CallStep("startEdit", "", "ok"),
              CallStep("bRepBodies.add", "", "ok"),
              CallStep("finishEdit", "", "ok") >> \o RenameBody(e)

\* lines 158-165: build the temporary geometry; build is what
\* get_qr_temp_geometry returned
BuildTemporary(e, build) ==
    << CallStep("get_qr_temp_geometry", "",
                IF build.ret = None THEN "None" ELSE "body") >>
    \o Messages(build.messages)
    \o IF build.ret = None
       THEN << Message("temp_geometry_failed"), Return("None") >>
       ELSE CommitBaseFeature(e)

\* lines 140-156: copy the bodies of the target's component; e.copy is
\* "no_bodies", or what copyToComponent does for the one solid body there
CopyBodies(e) ==
    CASE e.copy = "no_bodies" -> << Message("no_bodies_warning") >>
      [] e.copy = "none" -> << CallStep("copyToComponent", "", "none"),
                               Message("copy_failed_warning") >>
      [] e.copy = "raise" -> << CallStep("copyToComponent", "", "raise"),
                                Message("copy_error") >>
      [] OTHER -> << CallStep("copyToComponent", "", "ok") >>

\* lines 132-138: name the new component; e.rename is "ok", "raise" (the
\* message is refused as a name) or "raise_twice" (so is the fallback name)
NameComponent(message, e) ==
    IF e.rename = "ok"
    THEN << CallStep("set_name", message, "ok") >>
    ELSE << CallStep("set_name", message, "raise"), Message("name_warning"),
            CallStep("set_name", "QR_Component",
                     IF e.rename = "raise" THEN "ok" ELSE "raise") >>

\* lines 94-227
make_real_geometry(input_values_, e, build) ==
    CASE e.occurrence = "none" ->
           << CallStep("addNewComponent", "", "none"),
              Message("occurrence_failed"), Return("None") >>
      [] e.occurrence = "no_component" ->
           << CallStep("addNewComponent", "", "ok"),
              Message("component_failed"), Return("None") >>
      [] e.rename = "raise_twice" ->
           << CallStep("addNewComponent", "", "ok") >>
           \o NameComponent(input_values_.message, e) \o << Return("raise") >>
      [] OTHER ->
           << CallStep("addNewComponent", "", "ok") >>
           \o NameComponent(input_values_.message, e)
           \o CopyBodies(e)
           \o BuildTemporary(e, build)

\* os.path.exists
ExistingFiles == {"keys.csv"}

\* lines 486-509, with build_qr_code (lines 431-483) as the encoder's answer
\* e.encoded: a matrix of ints, or [] after a message when it fails
make_qr_from_message(input_values_, e) ==
    IF input_values_.message = ""
    THEN << Message("no_message") >>
    ELSE IF e.encoded = <<>>
    THEN << CallStep("pyqrcode.create", input_values_.message, "raise"),
            Message("encoder_error") >>
    ELSE << CallStep("pyqrcode.create", input_values_.message, "ok") >>

\* left out: the message of line 91
get_target_bodySilent(e) ==
    IF e.target = "none"
    THEN << CallStep("findBRepUsingPoint", "", "none") >>
    ELSE << CallStep("findBRepUsingPoint", "", "ok") >>
\* lines 68-92: the body at the sketch point; with none found a message is
\* shown and None returned
get_target_body(e) ==
    IF e.target = "none"
    THEN << CallStep("findBRepUsingPoint", "", "none"),
            Message("no_target_body") >>
    ELSE << CallStep("findBRepUsingPoint", "", "ok") >>

\* lines 806-842: the try block of on_execute once a sketch point is there
Generate(single, input_values_, e, build) ==
    IF ~single
    THEN IF input_values_.file_name = ""
            \/ input_values_.file_name \notin ExistingFiles
         THEN << Message("invalid_csv") >>
         ELSE << Message("csv_not_implemented") >>
    ELSE IF input_values_.message = "" \/ e.encoded = <<>>
    THEN make_qr_from_message(input_values_, e) \o << Message("no_qr_data") >>
    ELSE IF e.target = "none"
    THEN make_qr_from_message(input_values_, e) \o get_target_body(e)
    ELSE make_qr_from_message(input_values_, e) \o get_target_body(e)
         \o make_real_geometry(input_values_, e, build)

\* lines 835-846: what on_execute says about make_real_geometry's ending
Report(steps) ==
    IF steps = <<>> \/ steps[Len(steps)].kind # "return" THEN steps
    ELSE SubSeq(steps, 1, Len(steps) - 1)
         \o << Message(CASE steps[Len(steps)].name = "component" -> "success"
                         [] steps[Len(steps)].name = "raise" -> "execution_failed"
                         [] OTHER -> "component_failed_message") >>

\* the finally block does nothing
ReEnableSkipped == <<>>
\* lines 848-850: the finally block
ReEnable == << CallStep("okButton.enable", "", "ok") >>

\* lines 784-850: the steps of on_execute; with the OK button not found the
\* lookup of line 792 raises before the try block is entered
on_execute(single, input_values_, e, build) ==
    IF e.okButton = "missing"
    THEN << CallStep("okButton.disable", "", "raise"), Return("raise") >>
    ELSE << CallStep("okButton.disable", "", "ok"),
            CallStep("doEvents", "", "ok") >>
         \o (IF input_values_.sketch_point = <<>>
             THEN << Message("missing_sketch_point") >>
             ELSE Report(Generate(single, input_values_, e, build)))
         \o ReEnable \o << Return("returned") >>

\* the host's side of a call: what it does to the document
Effect(scene_, step) ==
    IF step.kind # "call" \/ step.result # "ok" THEN scene_
    ELSE CASE step.name = "addNewComponent" ->
                [scene_ EXCEPT !.components = @ + 1]
           [] step.name = "set_name" ->
                [scene_ EXCEPT !.component_name = step.arg]
           [] step.name = "copyToComponent" ->
                [scene_ EXCEPT !.copied_bodies = @ + 1]
           [] step.name = "baseFeatures.add" ->
                [scene_ EXCEPT !.base_features = @ + 1]
           [] step.name = "startEdit" -> [scene_ EXCEPT !.editing = TRUE]
           [] step.name = "finishEdit" -> [scene_ EXCEPT !.editing = FALSE]
           [] step.name = "cancelEdit" -> [scene_ EXCEPT !.editing = FALSE]
           [] step.name = "bRepBodies.add" ->
                [scene_ EXCEPT !.qr_bodies = @ + 1]
           [] step.name = "rename_body" ->
                [scene_ EXCEPT !.qr_body_name = step.arg]
           [] OTHER -> scene_
RECURSIVE SceneAfter(_, _, _)
SceneAfter(scene_, steps, k) ==
    IF k > Len(steps) THEN scene_
    ELSE SceneAfter(Effect(scene_, steps[k]), steps, k + 1)
\* okButton.isEnabled after the steps
RECURSIVE EnabledAfter(_, _, _)
EnabledAfter(enabled, steps, k) ==
    IF k > Len(steps) THEN enabled
    ELSE EnabledAfter(
             IF steps[k].kind = "call" /\ steps[k].result = "ok"
             THEN CASE steps[k].name = "okButton.disable" -> FALSE
                    [] steps[k].name = "okButton.enable" -> TRUE
                    [] OTHER -> enabled
             ELSE enabled,
             steps, k + 1)
\* the names of the calls made, and the messages shown
NamesOf(steps, kind) ==
    LET chosen == SelectSeq(steps, LAMBDA st : st.kind = kind)
    IN  [k \in 1..Len(chosen) |-> chosen[k].name]
\* whether the steps get as far as get_qr_temp_geometry
Builds(steps) ==
    \E k \in 1..Len(steps) : steps[k].name = "get_qr_temp_geometry"

\* the matrices the encoder answers with (scaled down: a QR matrix always
\* has on cells)
EncodedMatrices ==
    { Matrix(1, "int", {<<1, 1>>}), Matrix(2, "int", {<<1, 1>>, <<2, 2>>}) }

\* the dialog's values when OK is pressed
ExecInputValues ==
    { Inputs(DefaultHeight, b, Size24, sp, m, f) :
        b \in {Zero, HalfCm},
        sp \in {<<>>, PointOf(UnitSketch)},
        m \in {"", "ABC"},
        f \in {"", "missing.csv", "keys.csv"} }

\* on_execute gets as far as the encoder / as far as make_real_geometry
ReachesEncoder(single, input_values_) ==
    single /\ input_values_.sketch_point # <<>> /\ input_values_.message # ""

\* The host's answers during one on_execute.  A call that is not reached has
\* its default answer, so that each course of the handler is one element.
DefaultAnswers(m) ==
    [okButton |-> "ok", encoded |-> m, target |-> "found",
     occurrence |-> "ok", rename |-> "ok", copy |-> "ok",
     h |-> NoFault(Len(OnCells(m))), base_feature |-> "ok",
     temp_valid |-> TRUE, add |-> "ok", body_rename |-> "ok"]
\* the answers after a build that returned a body
CommitAnswers(d) ==
    { [d EXCEPT !.base_feature = "none"], [d EXCEPT !.base_feature = "raise"],
      [d EXCEPT !.temp_valid = FALSE],
      [d EXCEPT !.add = "none"], [d EXCEPT !.add = "raise"],
      d, [d EXCEPT !.body_rename = "raise"],
      [d EXCEPT !.body_rename = "not_found"] }
GeometryAnswers(m, input_values_) ==
    UNION { IF get_qr_temp_geometry(None, m, input_values_, d.h).ret = None
            THEN {d} ELSE CommitAnswers(d) :
            d \in { [DefaultAnswers(m) EXCEPT !.rename = rn, !.copy = c, !.h = h] :
                      rn \in {"ok", "raise"},
                      c \in {"no_bodies", "ok", "none", "raise"},
                      h \in HostOutcomes(m, input_values_) } }
ExecAnswers(single, input_values_) ==
    { [DefaultAnswers(<<>>) EXCEPT !.okButton = "missing"], DefaultAnswers(<<>>) }
    \cup IF ~ReachesEncoder(single, input_values_) THEN {}
         ELSE UNION { { [DefaultAnswers(m) EXCEPT !.target = "none"],
                        [DefaultAnswers(m) EXCEPT !.occurrence = "none"],
                        [DefaultAnswers(m) EXCEPT !.occurrence = "no_component"],
                        [DefaultAnswers(m) EXCEPT !.rename = "raise_twice"] }
                      \cup GeometryAnswers(m, input_values_) :
                      m \in EncodedMatrices }

ExecInit ==
    /\ qr_data = <<>>
    /\ input_values \in ExecInputValues
    /\ host = NoFault(0)
    /\ pc = "ready"
    /\ ret = None
    /\ boxes = <<>>
    /\ messages = <<>>
    /\ final_qr_body = None
    /\ earlier = NoCall
    /\ is_make_qr \in BOOLEAN
    /\ scene = InitialScene
    /\ ops = <<>>
    /\ shown = <<>>
    /\ ok_enabled = TRUE
    /\ outcome = "none"
    /\ PanelIdle
    /\ FilesIdle

\* the user presses OK: QRCodeMaker.on_execute runs to its end
OnExecute ==
    /\ pc = "ready"
    /\ \E e \in ExecAnswers(is_make_qr, input_values) :
         \E build \in {get_qr_temp_geometry(final_qr_body, e.encoded,
                                            input_values, e.h)} :
           \E steps \in {on_execute(is_make_qr, input_values, e, build)} :
             \E built \in {IF Builds(steps) THEN build ELSE NoBuild} :
                /\ scene' = SceneAfter(scene, steps, 1)
                /\ ops' = NamesOf(steps, "call")
                /\ shown' = NamesOf(steps, "say")
                /\ ok_enabled' = EnabledAfter(ok_enabled, steps, 1)
                /\ outcome' = steps[Len(steps)].name
                /\ qr_data' = IF Builds(steps) THEN e.encoded ELSE <<>>
                /\ host' = e.h
                /\ ret' = built.ret
                /\ boxes' = built.boxes
                /\ messages' = built.messages
                /\ final_qr_body' = built.final_qr_body
    /\ pc' = "executed"
    /\ UNCHANGED <<input_values, earlier, is_make_qr, panelVars, fileVars>>

ExecNext == OnExecute

ExecSpec == ExecInit /\ [][ExecNext]_vars

\* ------------------------------------------------------------------------
\* The reading functions: import_qr_from_file, _get_csv_preview, build_qr_code
\* ------------------------------------------------------------------------
\* A file is whether it exists and the rows csv.reader finds in it, each a
\* list of the fields' texts.
File(rows) == [exists |-> TRUE, rows |-> rows]
NoFile == [exists |-> FALSE, rows |-> <<>>]

\* the file of a name: the one file there is holds two keys
FileNamed(file_name) ==
    IF file_name \in ExistingFiles
    THEN File(<< <<"KEY", "OTHER">>, <<"ABC", "x">>, <<"DEF", "y">> >>)
    ELSE NoFile

\* lines 412-427; out is "ok", or "raise" when opening or reading raises
import_qr_from_file(file, out) ==
    IF ~file.exists
    THEN [ret |-> <<>>, messages |-> <<"csv_not_found">>]
    ELSE IF out = "raise"
    THEN [ret |-> <<>>, messages |-> <<"csv_read_error">>]
    ELSE [ret |-> file.rows,
          messages |-> IF file.rows = <<>> THEN <<"csv_empty">> ELSE <<>>]

\* str.upper() on the header texts a file can hold
upper(field) ==
    CASE field = "key" -> "KEY"
      [] field = "Key" -> "KEY"
      [] OTHER -> field

\* line 658
max_preview_lines == 10

\* lines 667-671: the first field that is KEY whatever its case, or None
RECURSIVE key_header(_, _)
key_header(fieldnames, k) ==
    IF k > Len(fieldnames) THEN None
    ELSE IF upper(fieldnames[k]) = "KEY" THEN <<k, fieldnames[k]>>
    ELSE key_header(fieldnames, k + 1)

\* lines 655-698: the preview text, line by line, each line its words; the
\* reader takes the first row as the header (csv.DictReader) and the rest as
\* data rows
_get_csv_preview(file, out) ==
    IF ~file.exists THEN << <<"Error: File not found.">> >>
    ELSE IF out = "raise" THEN << <<"Error reading CSV">> >>
    ELSE IF file.rows = <<>>
    THEN << <<"CSV file appears to be empty or has no header row.">> >>
    ELSE LET fieldnames == file.rows[1]
             found == key_header(fieldnames, 1)
             total_items == Len(file.rows) - 1
             count == IF total_items < max_preview_lines THEN total_items
                      ELSE max_preview_lines
         IN  IF found = None
             THEN << <<"CSV file is missing the required header: 'KEY'.">>,
                     <<"Found headers:">> \o fieldnames >>
             ELSE IF total_items = 0
             THEN << <<"CSV file has", found[2], "header but no data rows.">> >>
             ELSE << <<"Found", found[2], "column. Preview:">> >>
                  \o [k \in 1..count |-> <<"-", file.rows[k + 1][found[1]]>>]
                  \o IF total_items > max_preview_lines
                     THEN << <<"... (Total items)">> >> ELSE <<>>

\* str.strip() on a line of the encoder's text
RECURSIVE lstrip(_)
lstrip(line) ==
    IF line # <<>> /\ Head(line) = " " THEN lstrip(Tail(line)) ELSE line
RECURSIVE rstrip(_)
rstrip(line) ==
    IF line # <<>> /\ line[Len(line)] = " "
    THEN rstrip(SubSeq(line, 1, Len(line) - 1)) ELSE line
stripped(line) == rstrip(lstrip(line))

\* int(char), line 461: defined on the digits, a ValueError otherwise
Digits == {"0", "1", "2", "3", "4", "5", "6", "7", "8", "9"}

\* lines 455-465: the rows of the lines that convert, and a warning for
\* every line that does not
RECURSIVE Rows(_, _, _)
Rows(lines, k, acc) ==
    IF k > Len(lines) THEN acc
    ELSE LET stripped_line == stripped(lines[k])
         IN  IF stripped_line = <<>> THEN Rows(lines, k + 1, acc)
             ELSE IF \A c \in 1..Len(stripped_line) : stripped_line[c] \in Digits
             THEN Rows(lines, k + 1,
                       [acc EXCEPT !.ret = Append(@,
                           [c \in 1..Len(stripped_line) |->
                               <<"int", stripped_line[c]>>])])
             ELSE Rows(lines, k + 1,
                       [acc EXCEPT !.messages = Append(@, "non_numeric_line")])

\* lines 443-483; out is "ok", or "raise" when pyqrcode cannot be imported
\* or pyqrcode.create raises; text is qr.text(quiet_zone=0) as its lines
build_qr_code(text, out) ==
    IF out = "raise" THEN [ret |-> <<>>, messages |-> <<"encoder_error">>]
    ELSE LET rows == Rows(text, 1, NoAnswer)
         IN  IF rows.ret = <<>>
             THEN [ret |-> <<>>,
                   messages |-> Append(rows.messages, "no_valid_rows")]
             ELSE rows

\* the files: none, an empty one, and a header row with up to MaxRows data
\* rows; the header has a KEY column first, a key column last, or none
Headers == { <<"KEY", "OTHER">>, <<"OTHER", "key">>, <<"ID", "OTHER">> }
DataRows == { <<"ABC", "x">>, <<"DEF", "y">>, <<"x", "ABC">>, <<"y", "DEF">> }
CsvFiles ==
    { NoFile, File(<<>>) }
    \cup UNION { { File(<<h>> \o rows) : h \in Headers, rows \in [1..n -> DataRows] } :
                 n \in 0..MaxRows }

\* the texts of the encoder: n lines of n characters, where a character may
\* be one that is not a digit; and texts with blank lines and padded lines
TextChars == {"0", "1", "x"}
QrTexts ==
    UNION { [1..n -> [1..n -> TextChars]] : n \in 0..MaxN }
    \cup { << <<" ", "1", " ">> >>, << <<>>, <<"1">> >>,
           << <<"1", "0">>, <<" ", " ">>, <<"0", "2">> >> }

\* the variables of the build and of on_execute, nothing having run
CommandIdle ==
    /\ qr_data = <<>>
    /\ input_values = Values(DefaultHeight, Zero, Size24, <<>>)
    /\ host = NoFault(0)
    /\ ret = None
    /\ boxes = <<>>
    /\ messages = <<>>
    /\ final_qr_body = None
    /\ earlier = NoCall
    /\ scene = InitialScene
    /\ ops = <<>>
    /\ shown = <<>>
    /\ ok_enabled = TRUE
    /\ outcome = "none"

ReadInit ==
    /\ CommandIdle
    /\ is_make_qr = FALSE
    /\ PanelIdle
    /\ pc = "ready"
    /\ answer = NoAnswer
    /\ \/ csv_file \in CsvFiles /\ qr_text = <<>>
       \/ csv_file = NoFile /\ qr_text \in QrTexts

\* import_qr_from_file(csv_file)
ImportQrFromFile ==
    /\ pc = "ready"
    /\ \E out \in {"ok", "raise"} : answer' = import_qr_from_file(csv_file, out)
    /\ pc' = "imported"
    /\ UNCHANGED <<qr_data, input_values, buildVars, execVars, panelVars,
                   csv_file, qr_text>>

\* _get_csv_preview(csv_file)
GetCsvPreview ==
    /\ pc = "ready"
    /\ \E out \in {"ok", "raise"} : csv_preview' = _get_csv_preview(csv_file, out)
    /\ pc' = "shown"
    /\ UNCHANGED <<qr_data, input_values, buildVars, execVars, dialog,
                   make_preview, isValidResult, fileVars>>

\* build_qr_code(message, args), the encoder's text being qr_text
BuildQrCode ==
    /\ pc = "ready"
    /\ \E out \in {"ok", "raise"} : answer' = build_qr_code(qr_text, out)
    /\ pc' = "encoded"
    /\ UNCHANGED <<qr_data, input_values, buildVars, execVars, panelVars,
                   csv_file, qr_text>>

ReadNext == ImportQrFromFile \/ GetCsvPreview \/ BuildQrCode

ReadSpec == ReadInit /\ [][ReadNext]_vars

\* ------------------------------------------------------------------------
\* The dialog: QRCodeMaker.on_input_changed and QRCodeMaker.on_preview
\* ------------------------------------------------------------------------
\* line 626
relevant_inputsNoBase ==
    {"sketch_point", "qr_size", "block_height", "message", "file_name"}
relevant_inputs ==
    {"sketch_point", "qr_size", "block_height", "base_height", "message",
     "file_name"}

\* lines 621-650.  panel is the dialog with the changed input already holding
\* its new value, the flag and the preview box; browsed is what
\* browse_for_csv returns when the changed input is the Browse button ("" when
\* the user cancels)
on_input_changed(panel, changed_input, browsed) ==
    LET flagged == IF changed_input \in relevant_inputs
                   THEN [panel EXCEPT !.make_preview = TRUE] ELSE panel
    IN  IF changed_input = "browse" /\ browsed # ""
        THEN [flagged EXCEPT
                 !.dialog = [@ EXCEPT !.file_name = browsed],
                 !.make_preview = TRUE,
                 !.csv_preview = _get_csv_preview(FileNamed(browsed), "ok")]
        ELSE flagged

\* lines 745-757: a dimension input is <<isValid, value>>
PositiveInput(val_input) == val_input[1] /\ RLess(Zero, val_input[2])
NonNegativeInput(val_input) == val_input[1] /\ RLeq(Zero, val_input[2])

\* lines 715-757: the checks of on_preview
Validated(dialog_, single) ==
    /\ dialog_.sketch_point # 0
    /\ IF single THEN dialog_.message # ""
       ELSE dialog_.file_name # "" /\ dialog_.file_name \in ExistingFiles
    /\ PositiveInput(dialog_.qr_size)
    /\ PositiveInput(dialog_.block_height)
    /\ NonNegativeInput(dialog_.base_height)

\* lines 701-769: args.isValidResult and the flag afterwards
on_preview(dialog_, make_preview_, single) ==
    IF make_preview_
    THEN IF Validated(dialog_, single)
         THEN [isValidResult |-> TRUE, make_preview |-> FALSE]
         ELSE [isValidResult |-> FALSE, make_preview |-> make_preview_]
    ELSE [isValidResult |-> TRUE, make_preview |-> make_preview_]

\* what the user can put into the inputs
DimensionInputs ==
    { <<TRUE, Size24>>, <<TRUE, DefaultHeight>>, <<TRUE, Zero>>,
      <<TRUE, RNeg(HalfCm)>>, <<FALSE, Size24>> }
Edits(single) ==
    { <<"sketch_point", n>> : n \in {0, 1} }
    \cup { <<id, v>> : id \in {"qr_size", "block_height", "base_height"},
                       v \in DimensionInputs }
    \cup IF single THEN { <<"message", t>> : t \in {"", "ABC"} } ELSE {}
BrowsedFiles == {"", "keys.csv", "missing.csv"}

DialogInit ==
    /\ CommandIdle
    /\ is_make_qr \in BOOLEAN
    /\ PanelIdle
    /\ FilesIdle
    /\ pc = "ready"

\* the user changes an input, or presses Browse... in CSV mode, and the host
\* calls on_input_changed
OnInputChanged ==
    /\ \E p \in
          { on_input_changed([dialog |-> [dialog EXCEPT ![ed[1]] = ed[2]],
                              make_preview |-> make_preview,
                              csv_preview |-> csv_preview], ed[1], "") :
              ed \in Edits(is_make_qr) }
          \cup (IF is_make_qr THEN {}
                ELSE { on_input_changed([dialog |-> dialog,
                                         make_preview |-> make_preview,
                                         csv_preview |-> csv_preview],
                                        "browse", f) : f \in BrowsedFiles }) :
          /\ dialog' = p.dialog
          /\ make_preview' = p.make_preview
          /\ csv_preview' = p.csv_preview
    /\ pc' = "changed"
    /\ UNCHANGED <<qr_data, input_values, buildVars, execVars, isValidResult,
                   fileVars>>

\* the host calls on_preview
OnPreview ==
    /\ \E p \in {on_preview(dialog, make_preview, is_make_qr)} :
          /\ isValidResult' = p.isValidResult
          /\ make_preview' = p.make_preview
    /\ pc' = "previewed"
    /\ UNCHANGED <<qr_data, input_values, buildVars, execVars, dialog,
                   csv_preview, fileVars>>

DialogNext == OnInputChanged \/ OnPreview

DialogSpec == DialogInit /\ [][DialogNext]_vars




\* ------------------------------------------------------------------------
\* Vocabulary of the properties
\* ------------------------------------------------------------------------
\* get_qr_temp_geometry has been called
Called == pc # "ready"
N == Len(qr_data)
S == input_values.qr_size
H == input_values.block_height
B == input_values.base_height

\* the on marker: the integer 1 or the character "1"
OnMarker(cell) == cell = <<"int", "1">> \/ cell = <<"str", "1">>
OnPositions ==
    {pos \in Positions(N) : OnMarker(qr_data[pos[1]][pos[2]])}
NumOn == Cardinality(OnPositions)

\* a message with this text was shown by the last call
Shown(text) == \E k \in 1..Len(messages) : messages[k].text = text
HowMany(text) == Cardinality({k \in 1..Len(messages) : messages[k].text = text})

\* the anchor has a sketch, and the sketch's axes span a frame: both are
\* non-zero and they are orthogonal
HasSketch ==
    /\ input_values.sketch_point # <<>>
    /\ input_values.sketch_point[1].parentSketch # <<>>
TheSketch == input_values.sketch_point[1].parentSketch[1]
ValidFrame ==
    /\ HasSketch
    /\ TheSketch.xDirection # ZeroVector
    /\ TheSketch.yDirection # ZeroVector
    /\ dotProduct(TheSketch.xDirection, TheSketch.yDirection) = Zero
DegenerateFrame ==
    /\ HasSketch
    /\ \/ TheSketch.xDirection = ZeroVector
       \/ TheSketch.yDirection = ZeroVector

\* the frame: origin and unit axes
Origin == input_values.sketch_point[1].worldGeometry
FrameX == scaleBy(TheSketch.xDirection, RDiv(One, length(TheSketch.xDirection)))
FrameY == scaleBy(TheSketch.yDirection, RDiv(One, length(TheSketch.yDirection)))
FrameZ == crossProduct(FrameX, FrameY)
\* the coordinates of a point in the frame
CoordX(p) == dotProduct(vectorTo(Origin, p), FrameX)
CoordY(p) == dotProduct(vectorTo(Origin, p), FrameY)
CoordZ(p) == dotProduct(vectorTo(Origin, p), FrameZ)

Half(r) == RDiv(r, Two)
\* a box is laid out along the frame's axes
AlongFrame(b) == b.lengthDirection = FrameX /\ b.widthDirection = FrameY
\* the extent of a box along the frame's X and Y
LowX(b) == RSub(CoordX(b.centerPoint), Half(b.length))
HighX(b) == RAdd(CoordX(b.centerPoint), Half(b.length))
LowY(b) == RSub(CoordY(b.centerPoint), Half(b.width))
HighY(b) == RAdd(CoordY(b.centerPoint), Half(b.width))

Parts(body) == {body[k] : k \in 1..Len(body)}
CellBoxes(bs) == {b \in Parts(bs) : b.kind = "cell"}

\* ------------------------------------------------------------------------
\* Properties
\* ------------------------------------------------------------------------
C1_Case ==
    /\ Called
    /\ N >= 1
    /\ NumOn >= 1
    /\ B = Zero
    /\ HasSketch
    /\ RLess(Zero, S) /\ RLess(Zero, H)

\* C1 as stated: with base_height = 0, a valid anchor, positive qr_size and
\* block_height and at least one on cell, the call returns a solid, never None.
C1_AlwaysASolid == C1_Case => ret # None

\* C1, amended: in that case the call returns a solid unless a host call
\* raises or createBox fails for the box of every on cell; then, and only
\* then, it returns None.
C1_SolidUnlessHostFails ==
    C1_Case => (ret = None <=> (Shown("error") \/ HowMany("block_failed") = NumOn))

C1_Witness ==
    /\ C1_Case /\ ret # None
    /\ N >= 2 /\ NumOn >= 2
    /\ HowMany("block_failed") = 1

\* C2: with nothing to build (a matrix of zero rows, or no on cell and
\* base_height 0) the call returns None and no box is created.
C2_NothingToBuild ==
    (Called /\ (N = 0 \/ (NumOn = 0 /\ B = Zero)))
        => (ret = None /\ boxes = <<>> /\ messages # <<>>)

C2_Witness ==
    /\ Called /\ N >= 1 /\ NumOn = 0 /\ B = Zero /\ ValidFrame
    /\ ret = None /\ Shown("no_geometry")

\* the solid is exactly the base plate: one S x S x B box along the frame's
\* axes, centred B/2 above the anchor
IsBasePlate(body) ==
    /\ Len(body) = 1
    /\ body[1].kind = "base"
    /\ AlongFrame(body[1])
    /\ body[1].length = S /\ body[1].width = S /\ body[1].height = B
    /\ CoordX(body[1].centerPoint) = Zero
    /\ CoordY(body[1].centerPoint) = Zero
    /\ CoordZ(body[1].centerPoint) = Half(B)

C3_Case == Called /\ N >= 1 /\ NumOn = 0 /\ ValidFrame

\* C3 as stated: for every base_height B > 0 and every matrix with no on
\* cell the call succeeds and returns exactly the base plate.
C3_BasePlateForEveryPositiveBase ==
    (C3_Case /\ RLess(Zero, B)) => (ret # None /\ IsBasePlate(ret))

\* C3, amended: for every base_height above the tolerance of 1e-6 and every
\* matrix with no on cell the call returns exactly the base plate, provided
\* the host creates the box and no host call raises; for a base_height of at
\* most the tolerance, and when the host fails, it returns None.
C3_BasePlateAboveTolerance ==
    C3_Case =>
        IF RLess(Tolerance, B) /\ ~Shown("error") /\ ~Shown("base_failed")
        THEN ret # None /\ IsBasePlate(ret) /\ boxes = ret
        ELSE ret = None

C3_Witness == C3_Case /\ N >= 2 /\ RLess(Tolerance, B) /\ ret # None

\* C4: for N = 1, matrix [[1]] and base_height = 0 the solid returned is a
\* single S x S x H box centred H/2 above the frame origin, with no offset
\* along X or Y.
C4_SingleCell ==
    (Called /\ N = 1 /\ NumOn = 1 /\ B = Zero /\ ValidFrame /\ ret # None)
        => /\ Len(ret) = 1
           /\ ret[1].kind = "cell"
           /\ AlongFrame(ret[1])
           /\ ret[1].length = S /\ ret[1].width = S /\ ret[1].height = H
           /\ CoordX(ret[1].centerPoint) = Zero
           /\ CoordY(ret[1].centerPoint) = Zero
           /\ CoordZ(ret[1].centerPoint) = Half(H)

C4_Witness ==
    /\ Called /\ N = 1 /\ NumOn = 1 /\ B = Zero /\ ValidFrame /\ ret # None
    /\ TheSketch = LongSketch

\* the least and the greatest of a non-empty set of rationals
Least(rs) == CHOOSE m \in rs : \A r \in rs : RLeq(m, r)
Greatest(rs) == CHOOSE m \in rs : \A r \in rs : RLeq(r, m)

\* the bounding box of a solid's footprint in the frame's X-Y plane is the
\* square [-S/2, S/2] x [-S/2, S/2] around the anchor
FootprintIsFullSquare(body) ==
    /\ Least({LowX(b) : b \in Parts(body)}) = RNeg(Half(S))
    /\ Greatest({HighX(b) : b \in Parts(body)}) = Half(S)
    /\ Least({LowY(b) : b \in Parts(body)}) = RNeg(Half(S))
    /\ Greatest({HighY(b) : b \in Parts(body)}) = Half(S)
\* the footprint lies inside that square
FootprintInsideSquare(body) ==
    \A b \in Parts(body) :
        /\ RLeq(RNeg(Half(S)), LowX(b)) /\ RLeq(HighX(b), Half(S))
        /\ RLeq(RNeg(Half(S)), LowY(b)) /\ RLeq(HighY(b), Half(S))
\* the solid holds the base plate, or cell boxes of the first and the last
\* row and of the first and the last column
ReachesAllSides(body) ==
    \/ \E b \in Parts(body) : b.kind = "base"
    \/ /\ \E b \in CellBoxes(body) : b.row = 0
       /\ \E b \in CellBoxes(body) : b.row = N - 1
       /\ \E b \in CellBoxes(body) : b.col = 0
       /\ \E b \in CellBoxes(body) : b.col = N - 1

C5_Case == Called /\ N >= 1 /\ ValidFrame /\ ret # None

\* C5 as stated: whenever a solid is returned, the bounding box of its
\* footprint is overall_size x overall_size, whichever cells are on and
\* whether or not there is a base plate.
C5_FootprintAlwaysFullSize == C5_Case => FootprintIsFullSquare(ret)

\* C5, amended: whenever a solid is returned its footprint lies inside the
\* overall_size x overall_size square centred on the anchor, for every N; its
\* bounding box is that square exactly when the solid holds the base plate
\* or holds cell boxes of the first and last row and the first and last
\* column, and is smaller otherwise.
C5_FootprintWithinFullSize ==
    C5_Case => /\ FootprintInsideSquare(ret)
               /\ FootprintIsFullSquare(ret) <=> ReachesAllSides(ret)

C5_Witness ==
    /\ C5_Case /\ N >= 2 /\ B = Zero
    /\ Len(ret) = 2
    /\ FootprintIsFullSquare(ret)

\* C6: the row index maps strictly monotonically to -Y: of two cell boxes of
\* one column the one of the smaller row has the larger Y in the frame; the
\* boxes of row 0 and of row N-1 end at +S/2 and -S/2, the two Y ends of the
\* grid, and their centres are mirror images about the anchor.
C6_RowsRunDownY ==
    (Called /\ N > 1 /\ ValidFrame) =>
        \A b1 \in CellBoxes(boxes) : \A b2 \in CellBoxes(boxes) :
            /\ (b1.col = b2.col /\ b1.row < b2.row) =>
                   RLess(CoordY(b2.centerPoint), CoordY(b1.centerPoint))
            /\ b1.row = 0 => HighY(b1) = Half(S)
            /\ b1.row = N - 1 => LowY(b1) = RNeg(Half(S))
            /\ (b1.row = 0 /\ b2.row = N - 1) =>
                   CoordY(b1.centerPoint) = RNeg(CoordY(b2.centerPoint))

C6_Witness ==
    /\ Called /\ N > 1 /\ ValidFrame
    /\ \E b1 \in CellBoxes(boxes) : \E b2 \in CellBoxes(boxes) :
          /\ b1.row = 0 /\ b1.col = 0
          /\ b2.row = N - 1 /\ b2.col = 0

C8_DegenerateAxisFails ==
    (Called /\ N >= 1 /\ DegenerateFrame) => (ret = None /\ boxes = <<>>)

\* C10 as stated: when the creation of the base plate box or of the box of
\* an on cell fails, the call returns a failure, never a solid that lacks
\* that box.
C10_PrimitiveFailureAborts ==
    (Called /\ (Shown("base_failed") \/ Shown("block_failed"))) => ret = None

\* on_execute has run; it called get_qr_temp_geometry
Ran == pc = "executed"
BuildCalled == \E k \in 1..Len(ops) : ops[k] = "get_qr_temp_geometry"
\* the host calls that change the document
SceneOps == {"addNewComponent", "set_name", "copyToComponent",
             "baseFeatures.add", "startEdit", "bRepBodies.add", "finishEdit",
             "cancelEdit", "rename_body"}

\* C9 as stated: the host-scene operations are invoked only after the build
\* has succeeded; whenever the build fails the document is left as it was
\* before the command ran.
C9_SceneUntouchedUnlessBuilt ==
    Ran => /\ (BuildCalled /\ ret = None) => scene = InitialScene
           /\ \A k \in 1..Len(ops) : ops[k] \in SceneOps =>
                  /\ ret # None
                  /\ \E j \in 1..(k - 1) : ops[j] = "get_qr_temp_geometry"

\* ------------------------------------------------------------------------
\* C11: tabular import
\* ------------------------------------------------------------------------
Imported == pc = "imported"
\* the values of the KEY column of the data rows, in row order
KeyColumn(file, column) ==
    [k \in 1..(Len(file.rows) - 1) |-> file.rows[k + 1][column]]

\* C11 as stated: the import of a readable file with a header row returns
\* the KEY column's values of the data rows, in row order, and nothing else;
\* when the header has no KEY column it reports the missing column and
\* returns no key.
C11_ImportYieldsKeyColumn ==
    (/\ Imported
     /\ csv_file.exists
     /\ csv_file.rows # <<>>
     /\ "csv_read_error" \notin {answer.messages[k] : k \in 1..Len(answer.messages)})
    => LET found == key_header(csv_file.rows[1], 1)
       IN  IF found = None
           THEN answer.ret = <<>> /\ answer.messages # <<>>
           ELSE /\ Len(answer.ret) = Len(csv_file.rows) - 1
                /\ answer.ret = KeyColumn(csv_file, found[1])

\* ------------------------------------------------------------------------
\* C12: no exception leaves on_execute
\* ------------------------------------------------------------------------
\* C12 as stated: whatever the inputs and whichever host call fails, the
\* failing lookup of the OK button included, on_execute returns normally: no
\* exception is raised to the host.
C12_NoExceptionEscapes ==
    Ran => outcome = "returned"

\* ------------------------------------------------------------------------
\* C13: no failing path is silent
\* ------------------------------------------------------------------------
\* the QR body was added to the new component and the edit was finished
Committed == scene.qr_bodies >= 1 /\ ~scene.editing

Calls(name) == Cardinality({k \in 1..Len(ops) : ops[k] = name})
\* on_execute ran in CSV mode with an anchor and an existing file
BatchCase ==
    /\ Ran /\ outcome = "returned"
    /\ ~is_make_qr
    /\ input_values.sketch_point # <<>>
    /\ FileNamed(input_values.file_name).exists

\* C14 as stated: in batch mode on_execute builds and commits once per key
\* of the CSV file, in row order, a failure on one key being reported for
\* that key while the remaining keys are still processed.
C14_BatchBuildsEveryKey ==
    BatchCase =>
        LET file == FileNamed(input_values.file_name)
            keys == KeyColumn(file, key_header(file.rows[1], 1)[1])
        IN  /\ Calls("get_qr_temp_geometry") = Len(keys)
            /\ Calls("addNewComponent") = Len(keys)

\* ------------------------------------------------------------------------
\* C15: the cells tile the square
\* ------------------------------------------------------------------------
\* overall_size / N
CellSide == RDiv(S, RInt(N))
\* the centre the loops compute for the cell of row i and column j
CellCentre(i, j) ==
    BlockCenterPoint(StartPoint(Origin, FrameX, FrameY, FrameZ, Side(S, N),
                                N, B, H),
                     FrameX, FrameY, i, j, Side(S, N))
\* (j + 1/2) * side - overall_size / 2 and overall_size / 2 - (i + 1/2) * side
CentreX(j) == RSub(RMul(Rat(2 * j + 1, 2), CellSide), Half(S))
CentreY(i) == RSub(Half(S), RMul(Rat(2 * i + 1, 2), CellSide))
\* the square of the grid that belongs to row i and column j:
\* [j * side - S/2, (j + 1) * side - S/2] x [S/2 - (i + 1) * side, S/2 - i * side]
IsGridSquare(b, i, j) ==
    /\ LowX(b) = RSub(RMul(RInt(j), CellSide), Half(S))
    /\ HighX(b) = RSub(RMul(RInt(j + 1), CellSide), Half(S))
    /\ LowY(b) = RSub(Half(S), RMul(RInt(i + 1), CellSide))
    /\ HighY(b) = RSub(Half(S), RMul(RInt(i), CellSide))

\* C15: for N >= 1 and a frame of two orthogonal axes, the centre computed
\* for every cell (i, j) is anchor + X*((j + 1/2)*side - S/2)
\* + Y*(S/2 - (i + 1/2)*side) with side = S/N and N*side = S; every cell box
\* created is side x side, laid along the frame and covers exactly the grid
\* square of its row and column, so the boxes of distinct cells do not
\* overlap and the N x N positions tile the S x S square about the anchor;
\* every cell box lies inside the base plate's footprint.
C15_CellsTileTheSquare ==
    (Called /\ N >= 1 /\ ValidFrame) =>
        /\ Side(S, N) = CellSide
        /\ RMul(RInt(N), CellSide) = S
        /\ \A i \in 0..(N - 1) : \A j \in 0..(N - 1) :
              /\ CoordX(CellCentre(i, j)) = CentreX(j)
              /\ CoordY(CellCentre(i, j)) = CentreY(i)
        /\ \A b \in CellBoxes(boxes) :
              /\ b.centerPoint = CellCentre(b.row, b.col)
              /\ b.length = CellSide /\ b.width = CellSide
              /\ AlongFrame(b)
              /\ IsGridSquare(b, b.row, b.col)
              /\ \A bb \in Parts(boxes) : bb.kind = "base" =>
                    /\ RLeq(LowX(bb), LowX(b)) /\ RLeq(HighX(b), HighX(bb))
                    /\ RLeq(LowY(bb), LowY(b)) /\ RLeq(HighY(b), HighY(bb))
\* a 2 x 2 matrix on a base plate, with a box for a cell off the diagonal
C15_Witness ==
    /\ Called /\ N = 2 /\ ValidFrame
    /\ \E bb \in Parts(boxes) : bb.kind = "base"
    /\ \E b \in CellBoxes(boxes) : b.row = 0 /\ b.col = 1

\* ------------------------------------------------------------------------
\* C16: the solid along Z
\* ------------------------------------------------------------------------
\* the extent of a box along the frame's Z
LowZ(b) == RSub(CoordZ(b.centerPoint), Half(b.height))
HighZ(b) == RAdd(CoordZ(b.centerPoint), Half(b.height))
\* the host did all it was asked to do during the last call
HostSucceeded ==
    /\ ~host.raise
    /\ host.base = "ok"
    /\ \A k \in 1..Len(host.cells) : host.cells[k] = "ok"

\* C16 as stated: for every base_height >= 0, the positive values at or
\* below the tolerance included, the returned solid rests on the anchor plane
\* and fills, over every on cell, the Z range from 0 to base_height +
\* block_height without a gap: the cell box fills [base_height, base_height
\* + block_height] and, when base_height is positive, a base plate fills
\* [0, base_height] below it.  (Stated for calls in which no host call fails.)
C16_NoGapBelowCells ==
    (Called /\ N >= 1 /\ ValidFrame /\ HostSucceeded /\ ret # None) =>
        \A b \in CellBoxes(ret) :
            /\ LowZ(b) = B
            /\ HighZ(b) = RAdd(B, H)
            /\ RLess(Zero, B) =>
                  \E bb \in Parts(ret) :
                      /\ bb.kind = "base"
                      /\ LowZ(bb) = Zero /\ HighZ(bb) = B
                      /\ RLeq(LowX(bb), LowX(b)) /\ RLeq(HighX(b), HighX(bb))
                      /\ RLeq(LowY(bb), LowY(b)) /\ RLeq(HighY(b), HighY(bb))

\* ------------------------------------------------------------------------
\* C17: a failed union
\* ------------------------------------------------------------------------
\* the on cells in the order the loops visit them, as <<i, j, col_char>>
Visited == OnCells(qr_data)
\* createBox returned a box for the k-th on cell
BoxMade(k) == host.cells[k] # "none"
\* the accumulator held a solid when the k-th on cell was reached
AccumulatorSet(k) ==
    \/ BaseNeeded(B) /\ host.base = "ok"
    \/ \E e \in 1..(k - 1) : BoxMade(e)
\* the union of the k-th on cell's box into the accumulator failed
UnionFailed(k) == BoxMade(k) /\ AccumulatorSet(k) /\ host.cells[k] = "false"
\* the call went through its loops
LoopsRan == Called /\ N >= 1 /\ HasSketch /\ ~host.raise
\* rows and columns of the cell boxes in bs, in order
CellsOf(bs) ==
    LET cs == SelectSeq(bs, LAMBDA b : b.kind = "cell")
    IN  [k \in 1..Len(cs) |-> <<cs[k].row, cs[k].col>>]
\* rows and columns of the on cells for which a box was made, in visiting order
RECURSIVE MadeFrom(_)
MadeFrom(k) ==
    IF k > Len(Visited) THEN <<>>
    ELSE (IF BoxMade(k) THEN << <<Visited[k][1], Visited[k][2]>> >> ELSE <<>>)
         \o MadeFrom(k + 1)

\* C17: when the union of a cell's box fails, the build shows a warning for
\* that cell, goes on to every remaining cell in row-major order (a box is
\* made for each of them) and returns the accumulator, which is a solid: a
\* failed union alone never makes the build fail.
C17_UnionFailureIsLenient ==
    (LoopsRan /\ \E k \in 1..Len(Visited) : UnionFailed(k)) =>
        /\ ret # None
        /\ ret = final_qr_body
        /\ \A k \in 1..Len(Visited) :
              UnionFailed(k) <=>
                 \E m \in 1..Len(messages) :
                     messages[m] = Msg("union_failed", Visited[k][1], Visited[k][2])
        /\ CellsOf(boxes) = MadeFrom(1)
        /\ \A b \in Parts(boxes) :
              b \in Parts(ret) <=>
                 ~(b.kind = "cell" /\ \E k \in 1..Len(Visited) :
                      /\ UnionFailed(k)
                      /\ b.row = Visited[k][1] /\ b.col = Visited[k][2])
\* the union fails for the first on cell (onto the base plate) and a later
\* on cell is still processed and merged
C17_Witness ==
    /\ LoopsRan /\ Len(Visited) = 2
    /\ UnionFailed(1)
    /\ host.cells[2] = "ok"
    /\ Cardinality(CellBoxes(boxes)) = 2
    /\ ret # None

\* ------------------------------------------------------------------------
\* C18: the fold over the cells
\* ------------------------------------------------------------------------
\* the positions <<row, column>> of an n x n matrix in row-major order
RowMajor(n) == [k \in 1..(n * n) |-> <<(k - 1) \div n, (k - 1) % n>>]
\* those that hold the on marker, integer 1 or character "1"
OnInRowMajor ==
    SelectSeq(RowMajor(N), LAMBDA pos : OnMarker(qr_data[pos[1] + 1][pos[2] + 1]))
\* the boxes are those of the on cells in row-major order, one each, and
\* the accumulator starts with the base plate if there is one, else with the
\* first on cell
FoldedRowMajor(withBase) ==
    /\ CellsOf(boxes) = OnInRowMajor
    /\ Cardinality(CellBoxes(boxes)) = NumOn
    /\ withBase => (ret # None /\ ret[1].kind = "base" /\ CellsOf(ret) = OnInRowMajor)
    /\ (~withBase /\ NumOn >= 1) =>
          /\ ret # None
          /\ ret[1].kind = "cell"
          /\ <<ret[1].row, ret[1].col>> = OnInRowMajor[1]
          /\ CellsOf(ret) = OnInRowMajor
    /\ (~withBase /\ NumOn = 0) => ret = None
C18_Case == LoopsRan /\ HostSucceeded

\* C18 as stated: the cells are folded in row-major order, a cell gives a box
\* exactly if it holds integer 1 or the character "1", and with every
\* primitive and union succeeding the accumulator starts with the base plate
\* if base_height > 0, else with the first on cell.
C18_BasePlateFirstIfPositive == C18_Case => FoldedRowMajor(RLess(Zero, B))

\* C18 amended: as above, the accumulator starting with the base plate if
\* base_height > 1e-6, else with the first on cell.
C18_BasePlateFirstAboveTolerance == C18_Case => FoldedRowMajor(RLess(Tolerance, B))
\* two on cells off the diagonal of a matrix of characters, on a base plate
C18_Witness ==
    /\ C18_Case /\ N = 2
    /\ qr_data[1][2] = <<"str", "1">> /\ qr_data[2][1] = <<"str", "1">>
    /\ qr_data[1][1] = <<"str", "0">>
    /\ RLess(Tolerance, B)
    /\ Len(ret) = 3 /\ ret[1].kind = "base"
    /\ CellsOf(ret) = << <<0, 1>>, <<1, 0>> >>

\* ------------------------------------------------------------------------
\* C19: a valid preview means valid inputs
\* ------------------------------------------------------------------------
\* the input constraints: one anchor point, qr_size > 0, block_height > 0,
\* base_height >= 0, and a message (single mode) or an existing CSV file
InputConstraints ==
    /\ dialog.sketch_point = 1
    /\ dialog.qr_size[1] /\ RLess(Zero, dialog.qr_size[2])
    /\ dialog.block_height[1] /\ RLess(Zero, dialog.block_height[2])
    /\ dialog.base_height[1] /\ RLeq(Zero, dialog.base_height[2])
    /\ is_make_qr => dialog.message # ""
    /\ ~is_make_qr => FileNamed(dialog.file_name).exists

\* C19: after any sequence of on_input_changed and on_preview calls, when
\* on_preview has just returned with isValidResult = true the inputs satisfy
\* every input constraint; and the flag make_preview is false only while
\* they do, so that no preview skips the validation after an input changed.
C19_ValidPreviewMeansValidInputs ==
    /\ (pc = "previewed" /\ isValidResult) => InputConstraints
    /\ ~make_preview => InputConstraints
\* a preview that skipped the validation (the flag was false) and came after
\* inputs were changed from their defaults
C19_Witness ==
    /\ pc = "previewed" /\ isValidResult /\ ~make_preview
    /\ dialog.base_height = <<TRUE, DefaultHeight>>
    /\ dialog.sketch_point = 1
    /\ ~is_make_qr /\ dialog.file_name = "keys.csv"

\* ------------------------------------------------------------------------
\* C20: the matrix of build_qr_code
\* ------------------------------------------------------------------------
\* the encoder's text is n lines of n characters
SquareText ==
    \A k \in 1..Len(qr_text) : Len(qr_text[k]) = Len(qr_text)

\* C20 as stated: every non-empty matrix build_qr_code returns is square
\* with cells 0 and 1, all its rows being as long as it has rows, for every
\* n x n text of the encoder, text with lines that are skipped as invalid
\* included.
C20_EncodedMatrixIsSquare ==
    (pc = "encoded" /\ SquareText /\ answer.ret # <<>>) =>
        \A i \in 1..Len(answer.ret) :
            /\ Len(answer.ret[i]) = Len(answer.ret)
            /\ \A j \in 1..Len(answer.ret[i]) :
                  answer.ret[i][j] \in {<<"int", "0">>, <<"int", "1">>}

\* ------------------------------------------------------------------------
\* C21: the base feature's edit is closed
\* ------------------------------------------------------------------------
\* make_real_geometry opened the edit of the base feature
EditOpened == Ran /\ Calls("startEdit") >= 1

\* C21 as stated: every startEdit of make_real_geometry is followed, before
\* the function returns, by exactly one finishEdit or cancelEdit, on every
\* path: success, failed add, invalid temporary body, and an exception
\* raised while the edit is open; the base feature is not left in edit mode.
C21_EditAlwaysClosed ==
    EditOpened =>
        /\ Calls("finishEdit") + Calls("cancelEdit") = Calls("startEdit")
        /\ ~scene.editing

\* ------------------------------------------------------------------------
\* C22: the OK button
\* ------------------------------------------------------------------------
\* on_execute got past the statement that disables the OK button
DisablePassed == Ran /\ Len(ops) >= 2 /\ ops[2] = "doEvents"

============================================================================
